---------------------------- MODULE Spec2Model ----------------------------
(***************************************************************************)
(* Model of the inequalipy package: the Gini coefficient (gini.index),     *)
(* the Kolm-Pollak EDE and index with the kappa calibration (kolmpollak)   *)
(* and the Atkinson EDE and index (atkinson).                              *)
(*                                                                         *)
(* Every function of the package is pure: a behaviour of the model is one  *)
(* call.  The initial state holds the caller's arguments, an action is     *)
(* one call of one function and stores what the call returned or raised.   *)
(*                                                                         *)
(* Numbers.  A float is modelled as an exact rational or one of the IEEE   *)
(* specials nan, +inf, -inf (rounding is not modelled).  exp, log and      *)
(* non-integer powers are kept symbolic: a value of kind "sym" carries the *)
(* term the code evaluates, in a normal form, so that two results are      *)
(* equal in the model only if the code evaluates the same real number.     *)
(***************************************************************************)
EXTENDS Integers, Sequences, FiniteSets, TLC

VARIABLES a,        \* the distribution: a sequence of floats, given as integers
          aForm,    \* "list" (a Python list) or "ndarray" (a numpy array)
          weights,  \* None, or the sequence of weights
          wForm,    \* "list" or "ndarray": the form weights is given in
          epsilon,  \* NoneF, or a finite float
          kappa,    \* NoneF, or a finite float
          numType,  \* "py" or "np": epsilon / kappa is a Python float or a numpy.float64
          op,       \* the function that was called ("none" before the call)
          result    \* what the call returned or raised

vars == <<a, aForm, weights, wForm, epsilon, kappa, numType, op, result>>

(***************************************************************************)
(* Bounds of the model.                                                    *)
(***************************************************************************)
MaxLen == 4          \* longest distribution given to gini.index without weights
MaxWeightedLen == 3  \* longest distribution given to gini.index with weights
MaxParamLen == 2     \* longest distribution given to kolmpollak and atkinson
MaxWeight == 2       \* largest weight
MaxScale == 3        \* largest scale factor k

None == <<>>

----------------------------------------------------------------------------
(***************************************************************************)
(* Exact rationals <<n, d>>, d > 0, in lowest terms.                       *)
(***************************************************************************)
Abs(x) == IF x < 0 THEN -x ELSE x

RECURSIVE GCD(_, _)
GCD(x, y) == IF y = 0 THEN x ELSE GCD(y, x % y)

Rat(n, d) ==
    LET g == GCD(Abs(n), Abs(d))
        s == IF d < 0 THEN -1 ELSE 1
    IN  <<(s * n) \div g, (s * d) \div g>>

(***************************************************************************)
(* Floats: [k, n, d, s].  k is "fin" (the rational n/d), "nan", "pinf",    *)
(* "ninf", "complex" (a Python complex number) or "sym" (the symbolic term *)
(* s).  The fields a kind does not use hold 0, 1 and <<>>.                 *)
(***************************************************************************)
Fin(n, d) == LET r == Rat(n, d) IN [k |-> "fin", n |-> r[1], d |-> r[2], s |-> <<>>]
Special(kind) == [k |-> kind, n |-> 0, d |-> 1, s |-> <<>>]
NaN == Special("nan")
PInf == Special("pinf")
NInf == Special("ninf")
Complex == Special("complex")
NoneF == Special("none")     \* Python's None where a float is expected
Sym(term) == [k |-> "sym", n |-> 0, d |-> 1, s |-> term]
FInt(i) == Fin(i, 1)

IsFin(x) == x.k = "fin"
Sign(x) == CASE x.k = "pinf" -> 1
             [] x.k = "ninf" -> -1
             [] x.k = "fin" -> (IF x.n > 0 THEN 1 ELSE IF x.n < 0 THEN -1 ELSE 0)
             [] OTHER -> 0
InfOf(sg) == IF sg > 0 THEN PInf ELSE NInf

FNeg(x) == CASE x.k = "fin" -> Fin(-x.n, x.d)
             [] x.k = "pinf" -> NInf
             [] x.k = "ninf" -> PInf
             [] OTHER -> x

\* IEEE addition: nan is absorbing, inf + (-inf) is nan.
FAdd(x, y) ==
    CASE x.k = "nan" \/ y.k = "nan" -> NaN
      [] x.k = "complex" \/ y.k = "complex" -> Complex
      [] x.k = "fin" /\ y.k = "fin" -> Fin(x.n * y.d + y.n * x.d, x.d * y.d)
      [] x.k = "fin" -> y
      [] y.k = "fin" -> x
      [] OTHER -> IF x.k = y.k THEN x ELSE NaN

FSub(x, y) == FAdd(x, FNeg(y))

\* IEEE multiplication: 0 * inf is nan.
FMul(x, y) ==
    CASE x.k = "nan" \/ y.k = "nan" -> NaN
      [] x.k = "complex" \/ y.k = "complex" -> Complex
      [] x.k = "fin" /\ y.k = "fin" -> Fin(x.n * y.n, x.d * y.d)
      [] OTHER -> IF Sign(x) * Sign(y) = 0 THEN NaN ELSE InfOf(Sign(x) * Sign(y))

\* numpy's float division: x / 0 is nan for x = 0 and a signed infinity
\* otherwise (a RuntimeWarning, no exception).
FDiv(x, y) ==
    CASE x.k = "nan" \/ y.k = "nan" -> NaN
      [] x.k = "complex" \/ y.k = "complex" -> Complex
      [] x.k = "fin" /\ y.k = "fin" ->
            IF y.n = 0
            THEN (IF x.n = 0 THEN NaN ELSE InfOf(Sign(x)))
            ELSE Fin(x.n * y.d, x.d * y.n)
      [] x.k = "fin" -> FInt(0)
      [] y.k = "fin" -> IF y.n = 0 THEN x ELSE InfOf(Sign(x) * Sign(y))
      [] OTHER -> NaN

FLeq(x, y) == x.k = "fin" /\ y.k = "fin" /\ x.n * y.d <= y.n * x.d

(***************************************************************************)
(* What a call does: it returns a value or raises an exception.            *)
(***************************************************************************)
Return(v) == [kind |-> "return", exc |-> "", val |-> v]
Raise(e) == [kind |-> "raise", exc |-> e, val |-> NaN]
NoResult == [kind |-> "none", exc |-> "", val |-> NaN]

----------------------------------------------------------------------------
(***************************************************************************)
(* Sequences of integers.                                                  *)
(***************************************************************************)
RECURSIVE SumSeq(_)
SumSeq(s) == IF s = <<>> THEN 0 ELSE Head(s) + SumSeq(Tail(s))

\* numpy.cumsum
CumSum(s) == [i \in 1..Len(s) |-> SumSeq(SubSeq(s, 1, i))]

Ones(n) == [i \in 1..n |-> 1]

Mul(s, t) == [i \in 1..Len(s) |-> s[i] * t[i]]

\* numpy.sort on values: the sorted sequence does not depend on how ties are placed.
RECURSIVE SortValues(_)
SortValues(s) ==
    IF s = <<>> THEN <<>>
    ELSE LET i == CHOOSE j \in 1..Len(s) : \A l \in 1..Len(s) : s[j] <= s[l]
         IN  <<s[i]>> \o SortValues(SubSeq(s, 1, i - 1) \o SubSeq(s, i + 1, Len(s)))

(***************************************************************************)
(* numpy.argsort with the default kind (quicksort, not stable): any        *)
(* permutation of the indices that puts the values in ascending order.     *)
(***************************************************************************)
RECURSIVE ArgSortsFrom(_, _)
ArgSortsFrom(s, left) ==
    IF left = {} THEN {<<>>}
    ELSE LET mins == {i \in left : \A j \in left : s[i] <= s[j]}
         IN  UNION {{<<i>> \o p : p \in ArgSortsFrom(s, left \ {i})} : i \in mins}

ArgSorts(s) == ArgSortsFrom(s, 1..Len(s))

Take(s, idx) == [i \in DOMAIN idx |-> s[idx[i]]]

----------------------------------------------------------------------------
(***************************************************************************)
(* gini.index                                                              *)
(***************************************************************************)
\* Mutant: the cumulative sum of the values is taken without their weights.
GiniWeightedValuesOnly(x, w, sorted_indices) ==
    LET sorted_x == Take(x, sorted_indices)
        sorted_w == Take(w, sorted_indices)
        cumw == CumSum(sorted_w)
        cumxw == CumSum(sorted_x)
        n == Len(x)
        num == SumSeq([i \in 1..(n - 1) |->
                         cumxw[i + 1] * cumw[i] - cumxw[i] * cumw[i + 1]])
    IN  FDiv(FInt(num), FInt(cumxw[n] * cumw[n]))

\* Mutant: the weights are not reordered with the values they belong to.
GiniWeightedUnpaired(x, w, sorted_indices) ==
    LET sorted_x == Take(x, sorted_indices)
        sorted_w == w
        cumw == CumSum(sorted_w)
        cumxw == CumSum(Mul(sorted_x, sorted_w))
        n == Len(x)
        num == SumSeq([i \in 1..(n - 1) |->
                         cumxw[i + 1] * cumw[i] - cumxw[i] * cumw[i + 1]])
    IN  FDiv(FInt(num), FInt(cumxw[n] * cumw[n]))

\* The weighted branch, given the permutation argsort returned.
GiniWeighted(x, w, sorted_indices) ==
    LET sorted_x == Take(x, sorted_indices)
        sorted_w == Take(w, sorted_indices)
        cumw == CumSum(sorted_w)
        cumxw == CumSum(Mul(sorted_x, sorted_w))
        n == Len(x)
        num == SumSeq([i \in 1..(n - 1) |->
                         cumxw[i + 1] * cumw[i] - cumxw[i] * cumw[i + 1]])
    IN  FDiv(FInt(num), FInt(cumxw[n] * cumw[n]))

\* round(x, 3)
Round3(f) == IF IsFin(f) THEN Fin((2000 * f.n + f.d) \div (2 * f.d), 1000) ELSE f

\* Mutant: the result is rounded to three decimals.
GiniUnweightedRounded(x) ==
    LET sorted_x == SortValues(x)
        n == Len(x)
        cumx == CumSum(sorted_x)
    IN  Round3(FDiv(FSub(FInt(n + 1), FDiv(FInt(2 * SumSeq(cumx)), FInt(cumx[n]))),
                    FInt(n)))

\* Mutant: the values are not sorted.
GiniUnweightedUnsorted(x) ==
    LET n == Len(x)
        cumx == CumSum(x)
    IN  FDiv(FSub(FInt(n + 1), FDiv(FInt(2 * SumSeq(cumx)), FInt(cumx[n]))), FInt(n))

\* The unweighted branch.
GiniUnweighted(x) ==
    LET sorted_x == SortValues(x)
        n == Len(x)
        cumx == CumSum(sorted_x)
    IN  FDiv(FSub(FInt(n + 1), FDiv(FInt(2 * SumSeq(cumx)), FInt(cumx[n]))), FInt(n))

\* The results gini.index can return: one per order argsort may place ties in.
\* weights[sorted_indices] (line 28) raises IndexError when weights is shorter
\* than a, and reads only the first len(a) weights when it is longer.
GiniIndexResults(x, w) ==
    CASE w = None -> {Return(GiniUnweighted(x))}
      [] Len(w) < Len(x) -> {Raise("IndexError")}
      [] OTHER -> {Return(GiniWeighted(x, w, idx)) : idx \in ArgSorts(x)}

----------------------------------------------------------------------------
\* The values distributions are drawn from.
GiniValues == {-1, 0, 1, 10}
GiniWeightedValues == {0, 1, 10}

SeqsUpTo(S, n) == UNION {[1..l -> S] : l \in 1..n}

\* gini.index converts a and weights with np.asarray and takes no parameter.
InitGini ==
    /\ \/ /\ a \in SeqsUpTo(GiniValues, MaxLen)
          /\ weights = None
       \/ /\ a \in SeqsUpTo(GiniWeightedValues, MaxWeightedLen)
          /\ weights \in [1..Len(a) -> 0..MaxWeight]
    /\ aForm = "ndarray"
    /\ wForm = "ndarray"
    /\ epsilon = NoneF
    /\ kappa = NoneF
    /\ numType = "py"
    /\ op = "none"
    /\ result = NoResult

GiniIndex ==
    /\ op = "none"
    /\ op' = "gini.index"
    /\ result' \in GiniIndexResults(a, weights)
    /\ UNCHANGED <<a, aForm, weights, wForm, epsilon, kappa, numType>>

NextGini == GiniIndex

SpecGini == InitGini /\ [][NextGini]_vars

----------------------------------------------------------------------------
(***************************************************************************)
(* kolmpollak: calc_kappa, ede, index.  The values are floats (index       *)
(* passes ede the mean-centred values, which are not integers).            *)
(***************************************************************************)
FSeq(x) == [i \in 1..Len(x) |-> FInt(x[i])]

RECURSIVE FSum(_)
FSum(s) == IF s = <<>> THEN FInt(0) ELSE FAdd(Head(s), FSum(Tail(s)))

(***************************************************************************)
(* np.multiply broadcasts its operands: lengths that differ are accepted   *)
(* when one of them is 1 (that operand is repeated), and raise ValueError  *)
(* otherwise.                                                              *)
(***************************************************************************)
Broadcastable(x, w) == Len(x) = Len(w) \/ Len(x) = 1 \/ Len(w) = 1

BroadcastLen(x, w) == IF Len(x) >= Len(w) THEN Len(x) ELSE Len(w)

BroadcastTo(s, n) == IF Len(s) = n THEN s ELSE [i \in 1..n |-> s[1]]

\* sum(x) without weights, np.multiply(x, w).sum() with weights.
WeightedSum(x, w) ==
    IF w = None THEN FSum(x)
    ELSE LET n == BroadcastLen(x, w)
             bx == BroadcastTo(x, n)
             bw == BroadcastTo(w, n)
         IN  FSum([i \in 1..n |-> FMul(bx[i], FInt(bw[i]))])

Squares(x) == [i \in 1..Len(x) |-> FMul(x[i], x[i])]

\* len(a) without weights, sum(weights) with weights.
Normaliser(x, w) == IF w = None THEN Len(x) ELSE SumSeq(w)

\* Mutant: the sum of squares is taken without the weights.
CalcKappaUnweightedSquares(x, xForm, eps, w) ==
    CASE w # None /\ ~Broadcastable(x, w) -> Raise("ValueError")
      [] w # None /\ xForm = "list" -> Raise("TypeError")
      [] OTHER ->
            LET x_sum == WeightedSum(x, w)
                x_sq_sum == WeightedSum(Squares(x), None)
            IN  Return(FMul(eps, FDiv(x_sum, x_sq_sum)))

(***************************************************************************)
(* calc_kappa(a, epsilon, weights).  Without weights a is converted by     *)
(* np.array(a); with weights the square is a**2 on a itself, which a       *)
(* Python list does not support (TypeError).  The quotient is a            *)
(* numpy.float64: a zero denominator gives nan or an infinity.  Weights    *)
(* that np.multiply cannot broadcast against a raise ValueError at line    *)
(* 111, before the square is taken.                                        *)
(***************************************************************************)
CalcKappa(x, xForm, eps, w) ==
    CASE w # None /\ ~Broadcastable(x, w) -> Raise("ValueError")
      [] w # None /\ xForm = "list" -> Raise("TypeError")
      [] OTHER ->
            LET x_sum == WeightedSum(x, w)
                x_sq_sum == WeightedSum(Squares(x), w)
            IN  Return(FMul(eps, FDiv(x_sum, x_sq_sum)))

(***************************************************************************)
(* The term (-1/kappa) * log(SUM c_v * exp(-kappa * v)) for a finite       *)
(* non-zero kappa, where c_v is the share of the total weight on the       *)
(* value v.  When all the weight is on one value v the term is             *)
(* (-1/kappa) * log(exp(-kappa * v)) = v.  The shares are of the           *)
(* normaliser n, which is sum(weights) also when np.multiply repeated the  *)
(* weights or the values: they need not add up to 1 then.                  *)
(***************************************************************************)
ShareOf(x, w, v, n) ==
    LET c == SumSeq([i \in 1..Len(x) |->
                       IF x[i] = v THEN (IF w = None THEN 1 ELSE w[i]) ELSE 0])
    IN  Fin(c, n)

Shares(x, w, n) ==
    LET vs == {x[i] : i \in 1..Len(x)}
    IN  {<<v.n, v.d, ShareOf(x, w, v, n).n, ShareOf(x, w, v, n).d>> :
            v \in {u \in vs : ShareOf(x, w, u, n).n > 0}}

LogMeanExp(x, kap, w, n) ==
    LET sh == Shares(x, w, n)
    IN  IF Cardinality(sh) = 1 /\ (\A t \in sh : t[3] = t[4])
        THEN (LET t == CHOOSE t \in sh : TRUE IN Fin(t[1], t[2]))
        ELSE Sym(<<"kolmpollak.ede", kap.n, kap.d, sh>>)

\* Lines 37-43 of ede, with the kappa in use and its type ("py": a Python
\* float, for which -1 / 0 raises; "np": a numpy.float64, for which it is -inf).
KolmPollakFormula(x, kap, kapType, w) ==
    LET N == Normaliser(x, w)
        n == IF w = None THEN Len(x) ELSE BroadcastLen(x, w)
        bx == BroadcastTo(x, n)
        bw == IF w = None THEN None ELSE BroadcastTo(w, n)
    IN  CASE w # None /\ ~Broadcastable(x, w) -> Raise("ValueError")   \* line 41
          [] kap.k # "fin" -> Return(NaN)
          [] kap.n = 0 /\ kapType = "py" -> Raise("ZeroDivisionError")
          [] kap.n = 0 -> Return(NaN)           \* -inf * log(1), or log(nan)
          [] N = 0 -> Return(NaN)               \* log(0 / 0)
          [] OTHER -> Return(LogMeanExp(bx, kap, bw, N))

\* Mutant: a default epsilon of 0.5 stands in for the missing parameter.
KolmPollakEdeDefaultEpsilon(x, eps, kap, kapType, w) ==
    IF kap = NoneF
    THEN LET k == CalcKappa(x, "ndarray", IF eps = NoneF THEN Fin(1, 2) ELSE eps, w)
         IN  IF k.kind = "raise" THEN k ELSE KolmPollakFormula(x, k.val, "np", w)
    ELSE KolmPollakFormula(x, kap, kapType, w)

\* ede(a, epsilon, kappa, weights).  a is an ndarray from line 32 on.
KolmPollakEde(x, eps, kap, kapType, w) ==
    IF kap = NoneF
    THEN IF eps = NoneF
         THEN Raise("TypeError")
         ELSE LET k == CalcKappa(x, "ndarray", eps, w)
              IN  IF k.kind = "raise" THEN k ELSE KolmPollakFormula(x, k.val, "np", w)
    ELSE KolmPollakFormula(x, kap, kapType, w)

\* np.mean(a) without weights; np.average(a, weights), which raises
\* TypeError when the shapes of a and weights differ (no axis is given) and
\* ZeroDivisionError when the weights sum to zero.
Mean(x, w) ==
    CASE w # None /\ Len(w) # Len(x) -> Raise("TypeError")
      [] w # None /\ SumSeq(w) = 0 -> Raise("ZeroDivisionError")
      [] OTHER -> Return(FDiv(WeightedSum(x, w), FInt(Normaliser(x, w))))

\* Mutant: ede is given the values themselves, not the centred values.
KolmPollakIndexUncentred(x, eps, kap, kapType, w) ==
    LET x_mean == Mean(x, w)
    IN  IF x_mean.kind = "raise"
        THEN x_mean
        ELSE KolmPollakEde(x, eps, kap, kapType, w)

\* index(a, epsilon, kappa, weights): ede of a - x_mean.
KolmPollakIndex(x, eps, kap, kapType, w) ==
    LET x_mean == Mean(x, w)
    IN  IF x_mean.kind = "raise"
        THEN x_mean
        ELSE KolmPollakEde([i \in 1..Len(x) |-> FSub(x[i], x_mean.val)],
                           eps, kap, kapType, w)

\* The caller's ede(a, kappa=calc_kappa(a, epsilon, weights), weights=weights).
EdeOfCalcKappa(x, xForm, eps, w) ==
    LET k == CalcKappa(x, xForm, eps, w)
    IN  IF k.kind = "raise" THEN k ELSE KolmPollakEde(x, NoneF, k.val, "np", w)

----------------------------------------------------------------------------
KPValues == {-1, 0, 2}
KPEpsilons == {FInt(0), Fin(1, 2), Fin(-1, 2)}
KPKappas == {FInt(0), FInt(1), FInt(-1)}

\* kolmpollak reads weights only through np.multiply, sum and np.average,
\* which take a list and an ndarray alike: weights are given as a list.
InitKP ==
    /\ a \in SeqsUpTo(KPValues, MaxParamLen)
    /\ aForm \in {"list", "ndarray"}
    /\ weights \in {None} \cup [1..Len(a) -> 0..MaxWeight]
    /\ wForm = "list"
    /\ \/ epsilon \in {NoneF} \cup KPEpsilons /\ kappa = NoneF /\ numType = "py"
       \/ epsilon = NoneF /\ kappa \in KPKappas /\ numType \in {"py", "np"}
       \/ epsilon = Fin(1, 2) /\ kappa \in KPKappas /\ numType = "py"
    /\ op = "none"
    /\ result = NoResult

KolmPollakEdeCall ==
    /\ op = "none"
    /\ op' = "kolmpollak.ede"
    /\ result' = KolmPollakEde(FSeq(a), epsilon, kappa, numType, weights)
    /\ UNCHANGED <<a, aForm, weights, wForm, epsilon, kappa, numType>>

KolmPollakIndexCall ==
    /\ op = "none"
    /\ op' = "kolmpollak.index"
    /\ result' = KolmPollakIndex(FSeq(a), epsilon, kappa, numType, weights)
    /\ UNCHANGED <<a, aForm, weights, wForm, epsilon, kappa, numType>>

CalcKappaCall ==
    /\ op = "none"
    /\ epsilon # NoneF
    /\ op' = "kolmpollak.calc_kappa"
    /\ result' = CalcKappa(FSeq(a), aForm, epsilon, weights)
    /\ UNCHANGED <<a, aForm, weights, wForm, epsilon, kappa, numType>>

EdeOfCalcKappaCall ==
    /\ op = "none"
    /\ epsilon # NoneF
    /\ op' = "kolmpollak.ede(kappa=calc_kappa)"
    /\ result' = EdeOfCalcKappa(FSeq(a), aForm, epsilon, weights)
    /\ UNCHANGED <<a, aForm, weights, wForm, epsilon, kappa, numType>>

NextKP ==
    \/ KolmPollakEdeCall
    \/ KolmPollakIndexCall
    \/ CalcKappaCall
    \/ EdeOfCalcKappaCall

SpecKP == InitKP /\ [][NextKP]_vars

----------------------------------------------------------------------------
(***************************************************************************)
(* atkinson: ede, index.                                                   *)
(***************************************************************************)
IsInteger(q) == q.d = 1

RECURSIVE IntPow(_, _)
IntPow(b, e) == IF e = 0 THEN 1 ELSE b * IntPow(b, e - 1)

(***************************************************************************)
(* `if not weights`: None is false; a non-empty list is true; an ndarray   *)
(* of one element has its element's truth value, and a longer ndarray has  *)
(* none (ValueError).  "none" | "weighted" | "unweighted" | "error".       *)
(***************************************************************************)
NotWeights(w, wf) ==
    CASE w = None -> "unweighted"
      [] wf = "list" -> "weighted"
      [] Len(w) > 1 -> "error"
      [] OTHER -> IF w[1] = 0 THEN "unweighted" ELSE "weighted"

(***************************************************************************)
(* i ** (1 - epsilon) for a float i and the exponent p # 0.  Python's own  *)
(* floats raise ZeroDivisionError for 0 ** negative and give a complex     *)
(* number for negative ** non-integer; numpy's (numpySem: i or epsilon is  *)
(* a numpy.float64) give inf and nan.  A positive i to a non-integer power *)
(* is kept as the atom [k |-> "atom"] and summed symbolically.             *)
(***************************************************************************)
Power(i, p, numpySem) ==
    CASE IsInteger(p) /\ p.n > 0 -> Return(FInt(IntPow(i, p.n)))
      [] i = 0 /\ p.n > 0 -> Return(FInt(0))
      [] i = 0 -> IF numpySem THEN Return(PInf) ELSE Raise("ZeroDivisionError")
      [] IsInteger(p) -> Return(Fin(1, IntPow(i, -p.n)))
      [] i < 0 -> IF numpySem THEN Return(NaN) ELSE Return(Complex)
      [] OTHER -> Return(Special("atom"))

\* The share of the normaliser n that the positive value v carries.
AtkShares(x, wts, n) ==
    LET vs == {x[i] : i \in 1..Len(x)}
        share(v) == SumSeq([i \in 1..Len(x) |-> IF x[i] = v THEN wts[i] ELSE 0])
    IN  {<<v, Rat(share(v), n)>> : v \in {u \in vs : u > 0 /\ share(u) > 0}}

\* (sum_atk / N) ** (1 / p) when every term of the sum is real and finite.
PowerMean(x, wts, n, p, numpySem) ==
    IF IsInteger(p)
    THEN LET tot == FSum([i \in 1..Len(x) |->
                           FMul(Power(x[i], p, numpySem).val, FInt(wts[i]))])
             base == FDiv(tot, FInt(n))
         IN  CASE p.n = 1 -> Return(base)
               [] p.n = -1 /\ base.n = 0 ->
                     IF numpySem THEN Return(PInf) ELSE Raise("ZeroDivisionError")
               [] p.n = -1 -> Return(FDiv(FInt(1), base))
               [] OTHER -> Return(Sym(<<"atkinson.ede", p.n, p.d, {<<base.n, base.d>>}>>))
    ELSE LET sh == AtkShares(x, wts, n)
         IN  CASE sh = {} -> Return(FInt(0))
               [] Cardinality(sh) = 1 /\ (CHOOSE t \in sh : TRUE)[2] = <<1, 1>> ->
                     Return(FInt((CHOOSE t \in sh : TRUE)[1]))
               [] OTHER -> Return(Sym(<<"atkinson.ede", p.n, p.d, sh>>))

(***************************************************************************)
(* ede(a, epsilon, weights).  epsType is "py" or "np": with a Python float *)
(* epsilon = 1 the exponent 1 / (1 - epsilon) raises ZeroDivisionError,    *)
(* with a numpy.float64 it is inf and the result is 1.0 ** inf = 1.0.      *)
(***************************************************************************)
AtkinsonEde(x, xForm, eps, epsType, w, wf) ==
    LET branch == NotWeights(w, wf)
        unweighted == branch = "unweighted"
        N == IF unweighted THEN Len(x) ELSE SumSeq(w)
        wts == IF unweighted THEN Ones(Len(x)) ELSE w
        x_mean == Mean(FSeq(x), w)
        p == FSub(FInt(1), eps)
        numpySem == xForm = "ndarray" \/ epsType = "np"
        terms == [i \in 1..Len(x) |-> Power(x[i], p, numpySem)]
        has(kind) == \E i \in 1..Len(x) : terms[i].val.k = kind
    IN  CASE branch = "error" -> Raise("ValueError")
          [] x_mean.kind = "raise" -> x_mean
          [] p.n = 0 -> IF epsType = "py" THEN Raise("ZeroDivisionError")
                        ELSE Return(FInt(1))
          [] \E i \in 1..Len(x) : terms[i].kind = "raise" -> Raise("ZeroDivisionError")
          [] has("nan") \/ (\E i \in 1..Len(x) : terms[i].val.k = "pinf" /\ wts[i] = 0)
                -> Return(NaN)
          [] has("complex") -> Return(Complex)
          [] has("pinf") -> Return(FInt(0))     \* inf ** (1 / p) with p < 0
          [] OTHER -> PowerMean(x, wts, N, p, numpySem)

\* index(a, epsilon, weights): 1 - ede / x_mean.
AtkinsonIndex(x, xForm, eps, epsType, w, wf) ==
    LET ede_atk == AtkinsonEde(x, xForm, eps, epsType, w, wf)
        x_mean == Mean(FSeq(x), w)
    IN  CASE ede_atk.kind = "raise" -> ede_atk
          [] ede_atk.val.k = "sym" ->
                Return(Sym(<<"atkinson.index", ede_atk.val.s, x_mean.val.n, x_mean.val.d>>))
          [] OTHER -> Return(FSub(FInt(1), FDiv(ede_atk.val, x_mean.val)))

----------------------------------------------------------------------------
AtkValues == {-1, 0, 1, 2}
AtkEpsilons == {Fin(1, 2), FInt(1), FInt(2)}

InitAtk ==
    /\ a \in SeqsUpTo(AtkValues, MaxParamLen)
    /\ aForm \in {"list", "ndarray"}
    /\ \/ weights = None /\ wForm = "list"
       \/ weights \in [1..Len(a) -> 0..MaxWeight] /\ wForm \in {"list", "ndarray"}
    /\ epsilon \in AtkEpsilons
    /\ numType \in {"py", "np"}
    /\ kappa = NoneF
    /\ op = "none"
    /\ result = NoResult

AtkinsonEdeCall ==
    /\ op = "none"
    /\ op' = "atkinson.ede"
    /\ result' = AtkinsonEde(a, aForm, epsilon, numType, weights, wForm)
    /\ UNCHANGED <<a, aForm, weights, wForm, epsilon, kappa, numType>>

AtkinsonIndexCall ==
    /\ op = "none"
    /\ op' = "atkinson.index"
    /\ result' = AtkinsonIndex(a, aForm, epsilon, numType, weights, wForm)
    /\ UNCHANGED <<a, aForm, weights, wForm, epsilon, kappa, numType>>

NextAtk ==
    \/ AtkinsonEdeCall
    \/ AtkinsonIndexCall

SpecAtk == InitAtk /\ [][NextAtk]_vars

----------------------------------------------------------------------------
(***************************************************************************)
(* Calls whose weights do not have the length of a: the five functions     *)
(* that take weights, each with weights shorter than a, longer than a, or  *)
(* of length 1.                                                            *)
(***************************************************************************)
MaxWeightsLen == 3   \* longest weights given with a distribution of another length

LenValues == {1, 2}

InitLen ==
    /\ a \in SeqsUpTo(LenValues, MaxParamLen)
    /\ aForm \in {"list", "ndarray"}
    /\ weights \in {w \in SeqsUpTo(0..MaxWeight, MaxWeightsLen) : Len(w) # Len(a)}
    /\ wForm \in {"list", "ndarray"}
    /\ epsilon = Fin(1, 2)
    /\ kappa \in {NoneF, FInt(1)}
    /\ numType = "py"
    /\ op = "none"
    /\ result = NoResult

NextLen ==
    \/ GiniIndex
    \/ KolmPollakEdeCall
    \/ KolmPollakIndexCall
    \/ AtkinsonEdeCall
    \/ AtkinsonIndexCall

SpecLen == InitLen /\ [][NextLen]_vars

----------------------------------------------------------------------------
(***************************************************************************)
(* Claims about gini.index.                                                *)
(***************************************************************************)
GiniCalled == op = "gini.index"
Weighted == weights # None
Scaled(k, x) == [i \in 1..Len(x) |-> k * x[i]]

\* The expanded multiset: x[i] repeated w[i] times.
RECURSIVE Expand(_, _)
Expand(x, w) ==
    IF x = <<>> THEN <<>>
    ELSE [j \in 1..Head(w) |-> Head(x)] \o Expand(Tail(x), Tail(w))

\* C3: with non-negative integer weights, not all zero, on a distribution of
\* positive total, the weighted branch of gini.index returns what the
\* unweighted branch returns on the expanded multiset; with all weights 1 it
\* returns what gini.index(a) returns.
C3_GiniWeightedEqualsExpanded ==
    (GiniCalled /\ Weighted /\ SumSeq(a) > 0 /\ SumSeq(weights) > 0)
        => /\ result = Return(GiniUnweighted(Expand(a, weights)))
           /\ (\A i \in 1..Len(a) : weights[i] = 1) => result = Return(GiniUnweighted(a))

C3_Witness ==
    /\ GiniCalled /\ Weighted /\ SumSeq(a) > 0
    /\ \E i, j \in 1..Len(a) : weights[i] = 2 /\ weights[j] = 0 /\ a[i] # 0
    /\ result.kind = "return" /\ IsFin(result.val) /\ result.val.n > 0

\* The (value, weight) pairs put in one fixed order, the same for every
\* permutation of them: by value, then by weight.
RECURSIVE CanonicalOrder(_, _, _)
CanonicalOrder(x, w, left) ==
    IF left = {} THEN <<>>
    ELSE LET i == CHOOSE j \in left : \A l \in left :
                      \/ x[j] < x[l]
                      \/ x[j] = x[l] /\ w[j] < w[l]
                      \/ x[j] = x[l] /\ w[j] = w[l] /\ j <= l
         IN  <<i>> \o CanonicalOrder(x, w, left \ {i})

\* C5: on a distribution of positive total gini.index returns the same value
\* for k*a, k > 0, as for a, and the same value for every permutation of the
\* (value, weight) pairs, whatever order the sort places tied values in: every
\* call, for every order argsort may return, gives the value of the formula on
\* the pairs in their canonical order, scaled by any k.
C5_GiniScaleAndPermutationInvariant ==
    (GiniCalled /\ SumSeq(a) > 0)
        => LET n == Len(a)
               p == CanonicalOrder(a, IF Weighted THEN weights ELSE Ones(n), 1..n)
               ca == Take(a, p)
               OnCanonical(k) ==
                   IF Weighted
                   THEN GiniWeighted(Scaled(k, ca), Take(weights, p), [i \in 1..n |-> i])
                   ELSE GiniUnweighted(Scaled(k, ca))
           IN  \A k \in 1..MaxScale : result = Return(OnCanonical(k))

\* Tied values that carry different weights, in a distribution that is not flat.
C5_Witness ==
    /\ GiniCalled /\ Weighted /\ SumSeq(a) > 0
    /\ \E i, j \in 1..Len(a) :
          a[i] = a[j] /\ weights[i] # weights[j] /\ weights[i] > 0 /\ weights[j] > 0
    /\ result.kind = "return" /\ IsFin(result.val) /\ result.val.n > 0

\* The formula of the specification: the (value, weight) pairs in ascending
\* order of value, W_k and X_k the prefix sums of weight and weight * value,
\* Gini = (SUM_{k=1}^{n-1} X_{k+1} W_k - X_k W_{k+1}) / (X_n W_n).
RECURSIVE PrefixW(_, _, _)
PrefixW(w, idx, k) == IF k = 0 THEN 0 ELSE PrefixW(w, idx, k - 1) + w[idx[k]]
RECURSIVE PrefixX(_, _, _, _)
PrefixX(x, w, idx, k) ==
    IF k = 0 THEN 0 ELSE PrefixX(x, w, idx, k - 1) + w[idx[k]] * x[idx[k]]
RECURSIVE CanonicalNumerator(_, _, _, _)
CanonicalNumerator(x, w, idx, k) ==
    IF k = 0 THEN 0
    ELSE CanonicalNumerator(x, w, idx, k - 1)
         + PrefixX(x, w, idx, k + 1) * PrefixW(w, idx, k)
         - PrefixX(x, w, idx, k) * PrefixW(w, idx, k + 1)
CanonicalGini(x, w) ==
    LET idx == CHOOSE p \in ArgSorts(x) : TRUE
        n == Len(x)
    IN  FDiv(FInt(CanonicalNumerator(x, w, idx, n - 1)),
             FInt(PrefixX(x, w, idx, n) * PrefixW(w, idx, n)))

\* C7: gini.index returns the value of the canonical formula (absent weights
\* are all 1), not rounded; for a = [0, 0, 0, 10] it returns exactly 3/4.
C7_GiniIsCanonicalFormula ==
    GiniCalled
        => /\ result = Return(CanonicalGini(a, IF Weighted THEN weights ELSE Ones(Len(a))))
           /\ (a = <<0, 0, 0, 10>> /\ ~Weighted) => result = Return(Fin(3, 4))

\* A result that rounding to three decimals would change.
C7_Witness ==
    /\ GiniCalled /\ ~Weighted /\ Len(a) = 3 /\ SumSeq(a) > 0
    /\ result.kind = "return" /\ IsFin(result.val) /\ 1000 % result.val.d # 0

\* C8: without weights, on non-negative values of positive total, the result
\* lies in [0, (n-1)/n], and it is 0 exactly when all values are equal.
C8_GiniRange ==
    (GiniCalled /\ ~Weighted /\ (\A i \in 1..Len(a) : a[i] >= 0) /\ SumSeq(a) > 0)
        => /\ result.kind = "return"
           /\ FLeq(FInt(0), result.val)
           /\ FLeq(result.val, Fin(Len(a) - 1, Len(a)))
           /\ FLeq(result.val, FInt(1))
           /\ (result.val = FInt(0)) <=> (\A i, j \in 1..Len(a) : a[i] = a[j])

\* The bound (n-1)/n is reached: all of the total is held by one member.
C8_Witness ==
    /\ GiniCalled /\ ~Weighted /\ Len(a) = MaxLen
    /\ \A i \in 1..Len(a) : a[i] >= 0
    /\ result = Return(Fin(Len(a) - 1, Len(a)))

----------------------------------------------------------------------------
(***************************************************************************)
(* Claims about kolmpollak and atkinson.                                   *)
(***************************************************************************)
BothNull == epsilon = NoneF /\ kappa = NoneF
WeightsSumToZero == Weighted /\ SumSeq(weights) = 0
AllEqual(x) == \A i, j \in 1..Len(x) : x[i] = x[j]

\* C1 as stated: with epsilon and kappa both null, kolmpollak.ede and
\* kolmpollak.index fail with the missing-parameter error (TypeError), for
\* every distribution and every weights.
C1_AsStated ==
    (op \in {"kolmpollak.ede", "kolmpollak.index"} /\ BothNull)
        => result = Raise("TypeError")

\* C1 as amended: with epsilon and kappa both null, ede fails with the
\* missing-parameter error for every distribution and every weights; index
\* returns no value either, and fails with the missing-parameter error whenever
\* the mean it computes first exists (weights absent, or not summing to zero);
\* when the weights sum to zero index fails in np.average (ZeroDivisionError),
\* before ede is entered.
C1_MissingParameter ==
    BothNull
        => /\ op = "kolmpollak.ede" => result = Raise("TypeError")
           /\ op = "kolmpollak.index"
                 => result = Raise(IF WeightsSumToZero THEN "ZeroDivisionError"
                                   ELSE "TypeError")

C1_Witness ==
    /\ op = "kolmpollak.index" /\ BothNull
    /\ Weighted /\ SumSeq(weights) > 0 /\ ~AllEqual(a)
    /\ result = Raise("TypeError")

\* C2: ede(a, epsilon=e, weights=w) returns what
\* ede(a, kappa=calc_kappa(a, e, w), weights=w) returns, for a in every
\* sequence form and every optional weights.
C2_CalibrationRoundTrip ==
    (op = "kolmpollak.ede(kappa=calc_kappa)" /\ ~WeightsSumToZero /\ epsilon.n # 0)
        => result = KolmPollakEde(FSeq(a), epsilon, NoneF, "py", weights)

\* The inputs atkinson is meant for: positive values, epsilon # 1.
AtkinsonDomain == epsilon # FInt(1) /\ \A i \in 1..Len(a) : a[i] > 0

\* What each function returns on the expanded multiset, without weights.
OnExpanded ==
    LET e == Expand(a, weights)
    IN  CASE op = "kolmpollak.ede" -> KolmPollakEde(FSeq(e), epsilon, kappa, numType, None)
          [] op = "kolmpollak.index" ->
                KolmPollakIndex(FSeq(e), epsilon, kappa, numType, None)
          [] op = "kolmpollak.calc_kappa" -> CalcKappa(FSeq(e), aForm, epsilon, None)
          [] op = "kolmpollak.ede(kappa=calc_kappa)" ->
                EdeOfCalcKappa(FSeq(e), aForm, epsilon, None)
          [] op = "atkinson.ede" -> AtkinsonEde(e, aForm, epsilon, numType, None, "list")
          [] op = "atkinson.index" -> AtkinsonIndex(e, aForm, epsilon, numType, None, "list")
          [] OTHER -> result

\* C4: with positive integer weights, kolmpollak.ede, kolmpollak.index,
\* calc_kappa, atkinson.ede and atkinson.index return for (a, w) what they
\* return for the expanded multiset without weights.
C4_WeightedEqualsExpanded ==
    (/\ op # "none"
     /\ Weighted /\ \A i \in 1..Len(a) : weights[i] >= 1
     /\ op \in {"atkinson.ede", "atkinson.index"} => AtkinsonDomain)
        => result = OnExpanded

ValidKolmPollakParameter ==
    \/ kappa # NoneF /\ kappa.n # 0
    \/ kappa = NoneF /\ epsilon # NoneF /\ epsilon.n # 0

\* C6 (its Kolm-Pollak part): on a distribution whose values all equal c, with
\* or without weights and for every valid aversion parameter, kolmpollak.ede
\* returns c and kolmpollak.index returns 0.
C6_ZeroVariance ==
    (AllEqual(a) /\ ValidKolmPollakParameter /\ ~WeightsSumToZero)
        => /\ op = "kolmpollak.ede" => result = Return(FInt(a[1]))
           /\ op = "kolmpollak.index" => result = Return(FInt(0))

\* C9: on a distribution with some value <= 0, with or without weights,
\* atkinson.ede and atkinson.index fail with an error and return no value
\* (stated for epsilon # 1; epsilon = 1 is C10's case).
C9_AtkinsonDomainError ==
    (/\ op \in {"atkinson.ede", "atkinson.index"}
     /\ epsilon # FInt(1)
     /\ \E i \in 1..Len(a) : a[i] <= 0)
        => result.kind = "raise"

\* The weighted geometric mean: c when all the weight is on the value c,
\* otherwise a number the model keeps symbolic.
GeometricMean(x, w) ==
    LET wts == IF w = None THEN Ones(Len(x)) ELSE w
        sh == AtkShares(x, wts, SumSeq(wts))
    IN  IF Cardinality(sh) = 1
        THEN FInt((CHOOSE t \in sh : TRUE)[1])
        ELSE Sym(<<"geometric mean", sh>>)

\* C10: with epsilon = 1 and positive values, atkinson.ede returns the
\* weighted geometric mean or fails with an error, whatever numeric type
\* epsilon is given in.
C10_AtkinsonEpsilonOne ==
    (op = "atkinson.ede" /\ epsilon = FInt(1) /\ \A i \in 1..Len(a) : a[i] > 0)
        => \/ result.kind = "raise"
           \/ result = Return(GeometricMean(a, weights))

----------------------------------------------------------------------------
(***************************************************************************)
(* Degenerate inputs.                                                      *)
(***************************************************************************)
\* SUM w_i * a_i, absent weights being all 1.
TotalWeightedSum == SumSeq(IF Weighted THEN Mul(a, weights) ELSE a)

\* C11: on a distribution whose total weighted sum is zero, gini.index fails
\* with an error on the weighted and on the unweighted branch; it returns no
\* value, in particular no nan and no infinity.
C11_GiniDegenerateInput ==
    (GiniCalled /\ TotalWeightedSum = 0) => result.kind = "raise"

\* The kappa that kolmpollak.ede uses: the caller's, or the one line 36 derives.
KappaInUse ==
    IF kappa # NoneF THEN kappa
    ELSE CalcKappa(FSeq(a), "ndarray", epsilon, weights).val

\* C12: whenever the kappa that kolmpollak.ede uses is zero, given by the
\* caller or derived by calc_kappa, ede fails with an error and returns no
\* value.
C12_KolmPollakKappaZero ==
    (/\ op = "kolmpollak.ede" /\ ~BothNull /\ ~WeightsSumToZero
     /\ KappaInUse = FInt(0))
        => result.kind = "raise"

\* C13: a call of kolmpollak.ede, kolmpollak.index, atkinson.ede,
\* atkinson.index or gini.index with weights whose length is not the length
\* of a (shorter, longer or 1) fails with an error and returns no value
\* (stated for positive weights, where a returned value is a finite number).
C13_LengthValidation ==
    (/\ op # "none" /\ Weighted /\ Len(weights) # Len(a)
     /\ \A i \in 1..Len(weights) : weights[i] > 0)
        => result.kind = "raise"

----------------------------------------------------------------------------
(***************************************************************************)
(* The calibration of kappa.                                               *)
(***************************************************************************)
WeightsOrOnes == IF Weighted THEN weights ELSE Ones(Len(a))
SumWA == SumSeq(Mul(a, WeightsOrOnes))                \* SUM w_i * a_i
SumWA2 == SumSeq(Mul(Mul(a, a), WeightsOrOnes))       \* SUM w_i * a_i^2
SignOf(i) == IF i > 0 THEN 1 ELSE IF i < 0 THEN -1 ELSE 0

\* The rational n/d is epsilon * SumWA / SumWA2.
IsCalibrated(n, d) == n * epsilon.d * SumWA2 = d * epsilon.n * SumWA

----------------------------------------------------------------------------
(***************************************************************************)
(* kolmpollak.index with epsilon: the calibration sees the centred values. *)
(***************************************************************************)
IndexWithEpsilon == op = "kolmpollak.index" /\ kappa = NoneF /\ epsilon # NoneF

\* a - x_mean, the values line 80 passes to ede.
Centred ==
    LET x_mean == Mean(FSeq(a), weights).val
    IN  [i \in 1..Len(a) |-> FSub(FInt(a[i]), x_mean)]

\* index(a, kappa=calc_kappa(a, epsilon, weights), weights=weights), a an ndarray.
IndexWithCalibratedKappa ==
    KolmPollakIndex(FSeq(a), NoneF, CalcKappa(FSeq(a), "ndarray", epsilon, weights).val,
                    "np", weights)

=============================================================================
